---- MODULE Spec2Model ----
(***************************************************************************)
(* Model of the egui-datepicker widget (src/src/lib.rs): the calendar      *)
(* arithmetic behind the month grid, the controls of the popup header and  *)
(* the per-frame popup state machine of <DatePicker as Widget>::ui.        *)
(*                                                                         *)
(* A date is a record [year, month, day] of the proleptic Gregorian        *)
(* calendar, as chrono's Date<Tz> exposes it; an Option<Date> is the empty *)
(* sequence (None) or a one-element sequence (Some).                       *)
(***************************************************************************)
EXTENDS Integers, Sequences, FiniteSets, TLC

VARIABLES
    date,                \* *self.date, the selected date owned by the host
    min_date,            \* self.min_date : Option<Date>
    max_date,            \* self.max_date : Option<Date>
    sunday_first,        \* self.sunday_first
    popup,               \* ui.memory().is_popup_open(self.id) between frames
    used_month_dropdown, \* self.used_month_dropdown when ui() returns
    panicked,            \* an unwrap() on None aborted ui()
    last,                \* the inputs of the frame that led to this state
    grid,                \* the cells show_calendar_grid rendered (SpecGrid)
    dfm                  \* the last get_days_from_month call (SpecDays)

vars == <<date, min_date, max_date, sunday_first, popup, used_month_dropdown,
          panicked, last, grid, dfm>>

-----------------------------------------------------------------------------
(* Bounds of the model. *)

\* Number of calendar years, starting with 2023, the selected date ranges over.
NumYears == 2

\* Number of years after 1896 that get_days_from_month is applied to in SpecDays
\* (the span holds 1900, 2000 and 2100).
YearSpan == 208

\* The grid cells the model clicks are those whose index is a multiple of this.
ClickStride == 5

ModelYears == 2023 .. (2023 + NumYears - 1)

DaysYears == 1896 .. (1896 + YearSpan)

-----------------------------------------------------------------------------
(* chrono: dates, day arithmetic, weekdays. *)

Date(y, m, d) == [year |-> y, month |-> m, day |-> d]

None == <<>>

Some(x) == <<x>>

\* NaiveDate's position on the day line (days since 1970-01-01), the quantity
\* that `date + Duration::days(n)` and signed_duration_since work on.
num_days_from_ce(y, m, d) ==
    LET yy  == IF m <= 2 THEN y - 1 ELSE y
        era == yy \div 400
        yoe == yy - era * 400
        mp  == IF m > 2 THEN m - 3 ELSE m + 9
        doy == ((153 * mp + 2) \div 5) + d - 1
        doe == yoe * 365 + (yoe \div 4) - (yoe \div 100) + doy
    IN  era * 146097 + doe - 719468

\* The date at a position of the day line.
from_num_days(z) ==
    LET zz  == z + 719468
        era == zz \div 146097
        doe == zz - era * 146097
        yoe == (doe - (doe \div 1460) + (doe \div 36524) - (doe \div 146096)) \div 365
        doy == doe - (365 * yoe + (yoe \div 4) - (yoe \div 100))
        mp  == (5 * doy + 2) \div 153
        d   == doy - ((153 * mp + 2) \div 5) + 1
        m   == IF mp < 10 THEN mp + 3 ELSE mp - 9
        y   == yoe + era * 400
    IN  Date(IF m <= 2 THEN y + 1 ELSE y, m, d)

\* date + Duration::days(n)
AddDays(dt, n) == from_num_days(num_days_from_ce(dt.year, dt.month, dt.day) + n)

\* Weekday::num_days_from_monday of date.weekday(): 0 = Mon .. 6 = Sun.
num_days_from_monday(dt) == (num_days_from_ce(dt.year, dt.month, dt.day) + 3) % 7

\* Weekday::num_days_from_sunday of date.weekday(): 0 = Sun .. 6 = Sat.
num_days_from_sunday(dt) == (num_days_from_monday(dt) + 1) % 7

\* Ordering of Date<Tz>: by year, then month, then day.
DateLt(a, b) ==
    \/ a.year < b.year
    \/ a.year = b.year /\ a.month < b.month
    \/ a.year = b.year /\ a.month = b.month /\ a.day < b.day

\* Whether (y, m, d) names a day of the calendar; the with_* setters return
\* None when it does not.
IsLeapYear(y) == (y % 4 = 0) /\ ((y % 100 # 0) \/ (y % 400 = 0))

MonthLength(y, m) ==
    IF m = 2 THEN (IF IsLeapYear(y) THEN 29 ELSE 28)
    ELSE IF m \in {4, 6, 9, 11} THEN 30 ELSE 31

from_ymd_opt(y, m, d) ==
    IF m \in 1..12 /\ d \in 1..MonthLength(y, m) THEN Some(Date(y, m, d)) ELSE None

with_day(dt, d) == from_ymd_opt(dt.year, dt.month, d)

with_month0(dt, m0) == from_ymd_opt(dt.year, m0 + 1, dt.day)

with_year(dt, y) == from_ymd_opt(y, dt.month, dt.day)

-----------------------------------------------------------------------------
(* Calendar arithmetic of the widget. *)

\* Fault: the first day of the month after December is taken in the same year.
get_days_from_month_december(year, month) ==
    num_days_from_ce(year, IF month = 12 THEN 1 ELSE month + 1, 1)
        - num_days_from_ce(year, month, 1)

\* fn get_days_from_month(year, month) -> i64
get_days_from_month(year, month) ==
    num_days_from_ce(IF month = 12 THEN year + 1 ELSE year,
                     IF month = 12 THEN 1 ELSE month + 1, 1)
        - num_days_from_ce(year, month, 1)

\* The weekday indexes of the seven header columns (Weekday::from_u8).
day_indexes(sf) ==
    IF sf THEN <<6, 0, 1, 2, 3, 4, 5>> ELSE <<0, 1, 2, 3, 4, 5, 6>>

\* Fault: the two week-start conventions are exchanged.
get_start_offset_of_calendar_swapped(sf, first_day) ==
    IF sf THEN num_days_from_monday(first_day) ELSE num_days_from_sunday(first_day)

\* fn get_start_offset_of_calendar
get_start_offset_of_calendar(sf, first_day) ==
    IF sf THEN num_days_from_sunday(first_day) ELSE num_days_from_monday(first_day)

\* Fault: the last week is not filled up.
get_end_offset_of_calendar_no_fill(sf, first_day) == 0

\* fn get_end_offset_of_calendar

get_end_offset_of_calendar(sf, first_day) ==
    IF sf THEN (7 - num_days_from_sunday(first_day)) % 7
          ELSE (7 - num_days_from_monday(first_day)) % 7

\* The locals of show_calendar_grid for the selected date sel: the date of
\* cell 0 and the number of cells of `for i in 0..(start + days + end)`.
grid_layout(sel, sf) ==
    LET first_day_of_current_month == with_day(sel, 1)[1]
        start_offset == get_start_offset_of_calendar(sf, first_day_of_current_month)
        days_in_month == get_days_from_month(sel.year, sel.month)
        first_day_of_next_month == AddDays(first_day_of_current_month, days_in_month)
        end_offset == get_end_offset_of_calendar(sf, first_day_of_next_month)
    IN  [start_date    |-> AddDays(first_day_of_current_month, 0 - start_offset),
         start_offset  |-> start_offset,
         days_in_month |-> days_in_month,
         end_offset    |-> end_offset,
         cells         |-> start_offset + days_in_month + end_offset]

\* let d = start_date.clone() + Duration::days(i)
grid_date(layout, i) == AddDays(layout.start_date, i)

\* The dates show_calendar_grid hands to show_day_button, in order.
grid_dates(sel, sf) ==
    LET layout == grid_layout(sel, sf)
    IN  [i \in 1..layout.cells |-> grid_date(layout, i - 1)]

\* matches!(&self.min_date, Some(min_date) if min_date > &date)
before_min(mn, d) == mn # None /\ DateLt(d, mn[1])

\* matches!(&self.max_date, Some(max_date) if max_date < &date)
after_max(mx, d) == mx # None /\ DateLt(mx[1], d)

\* Fault: the day equal to min_date is disabled too.
show_day_button_min_exclusive(sel, mn, mx, d) ==
    [date    |-> d,
     button  |-> sel.month = d.month,
     enabled |-> sel # d /\ ~((mn # None /\ ~DateLt(mn[1], d)) \/ after_max(mx, d))]

\* What show_day_button draws for the date d: whether a button exists (the
\* early return for another month draws none) and whether its ui is enabled.
show_day_button(sel, mn, mx, d) ==
    [date    |-> d,
     button  |-> sel.month = d.month,
     enabled |-> sel # d /\ ~(before_min(mn, d) \/ after_max(mx, d))]

\* The cells of the rendered grid: cell i (from 0) is preceded by ui.end_row()
\* when i % 7 = 0, so it lands in column i % 7, under header column i % 7.
show_calendar_grid(sel, mn, mx, sf) ==
    LET g == grid_dates(sel, sf)
    IN  [i \in 1..Len(g) |->
            [date    |-> g[i],
             col     |-> (i - 1) % 7,
             header  |-> day_indexes(sf)[((i - 1) % 7) + 1],
             button  |-> show_day_button(sel, mn, mx, g[i]).button,
             enabled |-> show_day_button(sel, mn, mx, g[i]).enabled]]

Clickable(cell) == cell.button /\ cell.enabled

-----------------------------------------------------------------------------
(* The popup header. The DatePicker is threaded through the controls as a  *)
(* record self = [date, used_month_dropdown, panic]; once an unwrap() has  *)
(* panicked nothing after it runs. A frame's input is a record             *)
(*   [kind, arg, btn, esc, elsewhere, menu]:                               *)
(*   kind/arg   the popup control the pointer or keyboard acted on:        *)
(*              "none"; "step" with the button's duration in days; "month" *)
(*              with the month0 clicked in the dropdown; "year" with the   *)
(*              value the DragValue was set to; "today" with the clock's   *)
(*              date as a day number; "day" with the grid cell index;      *)
(*   btn        button_response.clicked() of the date-display button;      *)
(*   esc        ui.input().key_pressed(Key::Escape);                       *)
(*   elsewhere  area_response.clicked_elsewhere();                         *)
(*   menu       the month menu is open, so menu_button runs its closure.   *)
(***************************************************************************)

\* The (year, month) comparison of date_step_button against both bounds.
step_out_of_bounds(mn, mx, new_date) ==
    \/ /\ mn # None
       /\ \/ mn[1].year > new_date.year
          \/ mn[1].year = new_date.year /\ mn[1].month > new_date.month
    \/ /\ mx # None
       /\ \/ mx[1].year < new_date.year
          \/ mx[1].year = new_date.year /\ mx[1].month < new_date.month

\* Fault: the step is taken without the comparison against the bounds.
date_step_button_unchecked(self, clicked, duration) ==
    IF self.panic \/ ~clicked THEN self
    ELSE [self EXCEPT !.date = AddDays(self.date, duration)]

\* fn date_step_button: on a click, self.date + duration replaces the date
\* unless its (year, month) is outside the bounds.
date_step_button(self, clicked, duration) ==
    IF self.panic \/ ~clicked THEN self
    ELSE LET new_date == AddDays(self.date, duration)
         IN  IF step_out_of_bounds(min_date, max_date, new_date)
             THEN self
             ELSE [self EXCEPT !.date = new_date]

\* min_month and max_month of show_month_control: Datelike::month() of the
\* bound (1..12) when the bound's year is the selected year, else 0 and 12.
min_month(mn, sel) ==
    IF mn # None /\ mn[1].year = sel.year THEN mn[1].month ELSE 0

max_month(mx, sel) ==
    IF mx # None /\ mx[1].year = sel.year THEN mx[1].month ELSE 12

\* The values i of `for i in min_month..max_month`, each offered as
\* selectable_value(&mut selected, i, ..): i is a month0.
months_offered(mn, mx, sel) ==
    {i \in 0..12 : min_month(mn, sel) <= i /\ i < max_month(mx, sel)}

\* The statements of a function run in sequence: each stage is applied to the
\* one value the stage before it left.
Only(S) == CHOOSE x \in S : TRUE

\* Fault: the closure of the month menu leaves the flag alone.
menu_closure_not_flagging(self, in) == self

\* The closure of ui.menu_button runs while the month menu is open and starts
\* with self.used_month_dropdown = true.
menu_closure(self, in) ==
    IF self.panic \/ ~in.menu THEN self
    ELSE [self EXCEPT !.used_month_dropdown = TRUE]

\* if selected != self.date.month0() { *self.date = with_month0(selected).unwrap() }
apply_selected_month(self, in) ==
    LET selected == IF in.menu /\ in.kind = "month" THEN in.arg
                    ELSE self.date.month - 1
    IN  IF self.panic \/ selected = self.date.month - 1 THEN self
        ELSE IF with_month0(self.date, selected) = None
             THEN [self EXCEPT !.panic = TRUE]
             ELSE [self EXCEPT !.date = with_month0(self.date, selected)[1]]

show_month_control(self, in) ==
    Only({ date_step_button(s3, in.kind = "step" /\ in.arg = 30, 30) :
           s3 \in { apply_selected_month(s2, in) :
           s2 \in { menu_closure(s1, in) :
           s1 \in { date_step_button(self, in.kind = "step" /\ in.arg = -30, -30) } } } })

\* The clamp_range of the year DragValue, cut to the years of the model.
drag_range(mn, mx) ==
    {y \in ModelYears : (mn = None \/ mn[1].year <= y) /\ (mx = None \/ y <= mx[1].year)}

\* if drag_year != self.date.year() { *self.date = with_year(drag_year).unwrap() }
apply_drag_year(self, in) ==
    LET drag_year == IF in.kind = "year" THEN in.arg ELSE self.date.year
    IN  IF self.panic \/ drag_year = self.date.year THEN self
        ELSE IF with_year(self.date, drag_year) = None
             THEN [self EXCEPT !.panic = TRUE]
             ELSE [self EXCEPT !.date = with_year(self.date, drag_year)[1]]

show_year_control(self, in) ==
    Only({ date_step_button(s2, in.kind = "step" /\ in.arg = 365, 365) :
           s2 \in { apply_drag_year(s1, in) :
           s1 \in { date_step_button(self, in.kind = "step" /\ in.arg = -365, -365) } } })

\* if ui.button("Today").clicked() { *self.date = Utc::now()...date() }
click_today(self, in) ==
    IF ~self.panic /\ in.kind = "today"
    THEN [self EXCEPT !.date = from_num_days(in.arg)]
    ELSE self

show_header(self, in) ==
    Only({ click_today(s2, in) :
           s2 \in { show_year_control(s1, in) :
           s1 \in { show_month_control(self, in) } } })

\* show_calendar_grid with a click on the day button of cell in.arg:
\* *self.date = date.
click_day(self, in) ==
    IF self.panic \/ in.kind # "day" THEN self
    ELSE LET layout == grid_layout(self.date, sunday_first)
             d == grid_date(layout, in.arg)
         IN  IF in.arg \in 0..(layout.cells - 1)
                /\ Clickable(show_day_button(self.date, min_date, max_date, d))
             THEN [self EXCEPT !.date = d]
             ELSE self

-----------------------------------------------------------------------------
(* <DatePicker as Widget>::ui: one frame. *)

\* Fault: the close request is honoured in a frame that clicked the button.
close_requested_button_ignored(in, self) ==
    in.esc \/ (~self.used_month_dropdown /\ in.elsewhere)

\* The condition of the second toggle_popup, with the flag as the header left it.
close_requested(in, self) ==
    ~in.btn /\ (in.esc \/ (~self.used_month_dropdown /\ in.elsewhere))

\* The end of ui() once header and grid have run: a panic has left the frame
\* unfinished; otherwise the popup is toggled on a close request and the flag
\* is reset.
finish(self, open1, in) ==
    IF self.panic
    THEN [date |-> self.date, popup |-> open1,
          used_month_dropdown |-> self.used_month_dropdown, panic |-> TRUE]
    ELSE [date |-> self.date,
          popup |-> IF close_requested(in, self) THEN ~open1 ELSE open1,
          used_month_dropdown |-> FALSE, panic |-> FALSE]

\* The widget is built anew by the host each frame (new(): the flag is false),
\* toggles the popup on a click of the display button and, when the popup is
\* then open, renders header and grid.
ui(sel, open, in) ==
    LET open1 == IF in.btn THEN ~open ELSE open
    IN  IF ~open1
        THEN [date |-> sel, popup |-> open1, used_month_dropdown |-> FALSE,
              panic |-> FALSE]
        ELSE Only({ finish(s2, open1, in) :
                    s2 \in { click_day(s1, in) :
                    s1 \in { show_header(s0, in) :
                    s0 \in { [date |-> sel, used_month_dropdown |-> FALSE,
                              panic |-> FALSE] } } } })

-----------------------------------------------------------------------------
(* Inputs the model draws from. *)

\* The builder configurations: (min_date, max_date, sunday_first).
Configs ==
    { [min |-> None, max |-> None, sf |-> FALSE],
      [min |-> Some(Date(2023, 3, 15)), max |-> Some(Date(2024, 10, 20)), sf |-> TRUE],
      [min |-> Some(Date(2023, 11, 10)), max |-> Some(Date(2023, 12, 25)), sf |-> FALSE] }

\* The dates the host's value holds when the widget is first shown.
StartDates == {Date(2023, 12, 20), Date(2023, 11, 30), Date(2024, 1, 31), Date(2024, 2, 29)}

\* The dates Utc::now() yields when Today is clicked.
TodayDates == {Date(2023, 1, 31), Date(2024, 6, 15)}

StepDurations == {-30, 30, -365, 365}

ModelDates ==
    {from_num_days(z) : z \in num_days_from_ce(2023, 1, 1) ..
                              num_days_from_ce(2023 + NumYears - 1, 12, 31)}

InBounds(mn, mx, d) == ~before_min(mn, d) /\ ~after_max(mx, d)

In(kind, arg, btn, esc, elsewhere, menu) ==
    [kind |-> kind, arg |-> arg, btn |-> btn, esc |-> esc,
     elsewhere |-> elsewhere, menu |-> menu]

-----------------------------------------------------------------------------
(* The widget over frames. A pointer click lands on one thing: a frame that *)
(* operates a control of the popup has no click on the display button and, *)
(* unless the control is the month menu (an area of its own), no click     *)
(* elsewhere; Escape is pressed in frames without such a click and in      *)
(* frames with a click on a day button.                                    *)

Init ==
    /\ \E c \in Configs :
        /\ min_date = c.min
        /\ max_date = c.max
        /\ sunday_first = c.sf
        /\ date \in {d \in StartDates : InBounds(c.min, c.max, d)}
    /\ popup = FALSE
    /\ used_month_dropdown = FALSE
    /\ panicked = FALSE
    /\ last = In("init", 0, FALSE, FALSE, FALSE, FALSE)
    /\ grid = <<>>
    /\ dfm = <<>>

\* One call of ui() with the input in; a panic ends the program.
Frame(in) ==
    /\ ~panicked
    /\ \E r \in {ui(date, popup, in)} :
           /\ r.date.year \in ModelYears
           /\ date' = r.date
           /\ popup' = r.popup
           /\ used_month_dropdown' = r.used_month_dropdown
           /\ panicked' = r.panic
    /\ last' = in
    /\ UNCHANGED <<min_date, max_date, sunday_first, grid, dfm>>

\* Whether this frame renders the popup (is_popup_open after the first toggle).
Rendered(btn) == IF btn THEN ~popup ELSE popup

\* A frame in which no control of the popup is operated.
FrameIdle ==
    \E btn \in BOOLEAN, esc \in BOOLEAN, elsewhere \in BOOLEAN, menu \in BOOLEAN :
        /\ menu => Rendered(btn)
        /\ Frame(In("none", 0, btn, esc, elsewhere, menu))

\* A frame with a click on one of the four step buttons.
FrameStep ==
    /\ popup
    /\ \E dur \in StepDurations :
        Frame(In("step", dur, FALSE, FALSE, FALSE, FALSE))

\* A frame with a click on an entry of the open month menu; the menu is an
\* area of its own, so the click may count as a click elsewhere.
FrameMonth ==
    /\ popup
    /\ \E sel \in months_offered(min_date, max_date, date), elsewhere \in BOOLEAN :
        Frame(In("month", sel, FALSE, FALSE, elsewhere, TRUE))

\* A frame in which the year DragValue is set to another year of its range.
FrameYear ==
    /\ popup
    /\ \E y \in drag_range(min_date, max_date) \ {date.year} :
        Frame(In("year", y, FALSE, FALSE, FALSE, FALSE))

\* A frame with a click on Today.
FrameToday ==
    /\ popup
    /\ \E t \in TodayDates :
        Frame(In("today", num_days_from_ce(t.year, t.month, t.day),
                 FALSE, FALSE, FALSE, FALSE))

\* A frame with a click on an enabled day button of the grid (the cells the
\* pointer picks are every ClickStride-th one), with or without Escape.
FrameDay ==
    /\ popup
    /\ LET layout == grid_layout(date, sunday_first)
       IN  \E i \in {c \in 0..(layout.cells - 1) : c % ClickStride = 0},
              esc \in BOOLEAN :
            /\ Clickable(show_day_button(date, min_date, max_date, grid_date(layout, i)))
            /\ Frame(In("day", i, FALSE, esc, FALSE, FALSE))

Next ==
    \/ FrameIdle
    \/ FrameStep
    \/ FrameMonth
    \/ FrameYear
    \/ FrameToday
    \/ FrameDay

Spec == Init /\ [][Next]_vars

-----------------------------------------------------------------------------
(* The grid as a function of the selected date and the configuration. *)

InitGrid ==
    /\ \E c \in Configs :
        /\ min_date = c.min
        /\ max_date = c.max
        /\ sunday_first = c.sf
    /\ date \in ModelDates
    /\ popup = TRUE
    /\ used_month_dropdown = FALSE
    /\ panicked = FALSE
    /\ last = In("init", 0, FALSE, FALSE, FALSE, FALSE)
    /\ grid = <<>>
    /\ dfm = <<>>

RenderGrid ==
    /\ grid = <<>>
    /\ grid' = show_calendar_grid(date, min_date, max_date, sunday_first)
    /\ UNCHANGED <<date, min_date, max_date, sunday_first, popup,
                   used_month_dropdown, panicked, last, dfm>>

NextGrid == RenderGrid

SpecGrid == InitGrid /\ [][NextGrid]_vars

-----------------------------------------------------------------------------
(* get_days_from_month over years and months. *)

InitDays ==
    /\ min_date = None
    /\ max_date = None
    /\ sunday_first = FALSE
    /\ date = Date(2023, 12, 20)
    /\ popup = FALSE
    /\ used_month_dropdown = FALSE
    /\ panicked = FALSE
    /\ last = In("init", 0, FALSE, FALSE, FALSE, FALSE)
    /\ grid = <<>>
    /\ dfm = <<>>

CallDays ==
    /\ dfm = <<>>
    /\ \E y \in DaysYears, m \in 1..12 :
        dfm' = <<[year |-> y, month |-> m, days |-> get_days_from_month(y, m)]>>
    /\ UNCHANGED <<date, min_date, max_date, sunday_first, popup,
                   used_month_dropdown, panicked, last, grid>>

NextDays == CallDays

SpecDays == InitDays /\ [][NextDays]_vars

-----------------------------------------------------------------------------
(* The calendar the claims are stated against, written without the day     *)
(* line of the model: month lengths by table, the day after a date, and    *)
(* the weekday by Zeller's congruence.                                     *)

GregorianLeap(y) == (y % 4 = 0) /\ ~(y % 100 = 0 /\ y % 400 # 0)

GregorianLength(y, m) ==
    CASE m \in {1, 3, 5, 7, 8, 10, 12} -> 31
      [] m \in {4, 6, 9, 11} -> 30
      [] m = 2 -> IF GregorianLeap(y) THEN 29 ELSE 28

NextDay(d) ==
    IF d.day < GregorianLength(d.year, d.month) THEN Date(d.year, d.month, d.day + 1)
    ELSE IF d.month < 12 THEN Date(d.year, d.month + 1, 1)
    ELSE Date(d.year + 1, 1, 1)

\* 0 = Monday .. 6 = Sunday
ZellerWeekday(d) ==
    LET m == IF d.month <= 2 THEN d.month + 12 ELSE d.month
        y == IF d.month <= 2 THEN d.year - 1 ELSE d.year
        k == y % 100
        j == y \div 100
        h == (d.day + ((13 * (m + 1)) \div 5) + k + (k \div 4) + (j \div 4) + 5 * j) % 7
    IN  (h + 5) % 7

\* Days from the configured week-start day to the weekday of d.
WeekOffset(d, sf) == (ZellerWeekday(d) + (IF sf THEN 1 ELSE 0)) % 7

YearMonth(d) == d.year * 12 + d.month

DayNumber(d) == num_days_from_ce(d.year, d.month, d.day)

-----------------------------------------------------------------------------
(* Claims. *)

\* C1: with the selected date starting inside [min_date, max_date], after any
\* sequence of widget interactions the selected date is never earlier than
\* min_date and never later than max_date.
C1_SelectedWithinBounds ==
    /\ min_date # None => DayNumber(date) >= DayNumber(min_date[1])
    /\ max_date # None => DayNumber(date) <= DayNumber(max_date[1])

\* C2: no sequence of widget interactions reaches a failed date construction
\* (an unwrap on a nonexistent calendar date).
C2_NoFailedDateConstruction == ~panicked

\* C3 as claimed: a click on the display button while Closed leaves the popup
\* Open at the end of the frame whatever else is reported; while Open it becomes
\* Closed on a click of the display button, on Escape, or on a click outside the
\* popup area; nothing else changes the state, and a click on an enabled day
\* sets the selected date to that day and (without Escape) leaves the popup Open.
C3_Original ==
    [][ ~panicked' =>
          /\ (~popup /\ last'.btn) => popup'
          /\ (popup /\ last'.btn) => ~popup'
          /\ (popup /\ last'.esc) => ~popup'
          /\ (popup /\ last'.elsewhere) => ~popup'
          /\ (~last'.btn /\ ~last'.esc /\ ~last'.elsewhere) => (popup' = popup)
          /\ (popup /\ last'.kind = "day") =>
                /\ date' = grid_dates(date, sunday_first)[last'.arg + 1]
                /\ ~last'.esc => popup'
      ]_vars

\* C3 as amended: as claimed, but a click outside the popup area closes the Open
\* popup only in a frame that does not show the month menu; in a frame that
\* shows it, an outside click without Escape or a display-button click leaves
\* the popup Open.
C3_PopupStateMachine ==
    [][ ~panicked' =>
          /\ (~popup /\ last'.btn) => popup'
          /\ (popup /\ last'.btn) => ~popup'
          /\ (popup /\ last'.esc) => ~popup'
          /\ (popup /\ last'.elsewhere /\ ~last'.menu) => ~popup'
          /\ (~last'.btn /\ ~last'.esc /\ ~(last'.elsewhere /\ ~last'.menu))
                => (popup' = popup)
          /\ (popup /\ last'.kind = "day") =>
                /\ date' = grid_dates(date, sunday_first)[last'.arg + 1]
                /\ ~last'.esc => popup'
      ]_vars

\* C3 witness: the popup was opened by a click of the display button in a frame
\* that also reported Escape and a click elsewhere.
C3_Witness ==
    popup /\ last.kind = "none" /\ last.btn /\ last.esc /\ last.elsewhere /\ ~panicked

\* C4 as claimed: in an Open frame where a month is chosen from the dropdown an
\* outside click does not close the popup; the flag is false at the end of every
\* pass; in any frame with no month-menu selection an outside click without a
\* display-button click closes the popup.
C4_Original ==
    [][ ~panicked' =>
          /\ (popup /\ last'.kind = "month" /\ last'.elsewhere /\ ~last'.esc /\ ~last'.btn)
                => popup'
          /\ ~used_month_dropdown'
          /\ (popup /\ last'.kind # "month" /\ last'.elsewhere /\ ~last'.btn)
                => ~popup'
      ]_vars

\* C4 as amended: the suppression is tied to the month menu being shown in the
\* frame, whether or not an entry is chosen: in an Open frame that shows the
\* month menu (one where a month is chosen included) an outside click does not
\* close the popup; the flag is false at the end of every pass; in any frame
\* that does not show the month menu an outside click without a display-button
\* click closes the popup.
C4_SuppressionWhileMenuShown ==
    [][ ~panicked' =>
          /\ (popup /\ last'.kind = "month" /\ last'.elsewhere /\ ~last'.esc /\ ~last'.btn)
                => popup'
          /\ (popup /\ last'.menu /\ last'.elsewhere /\ ~last'.esc /\ ~last'.btn)
                => popup'
          /\ ~used_month_dropdown'
          /\ (popup /\ ~last'.menu /\ last'.elsewhere /\ ~last'.btn)
                => ~popup'
      ]_vars

\* C4 witness: a month other than the shown one was chosen from the dropdown in
\* a frame that reported a click elsewhere, and the popup is still open.
C4_Witness ==
    /\ popup /\ ~panicked /\ ~used_month_dropdown
    /\ last.kind = "month" /\ last.elsewhere
    /\ date = Date(2024, 3, 31)

\* C5: the rendered grid is a sequence of startOffset + daysInMonth + endOffset
\* dates that increases by exactly one day per step, whose length is a multiple
\* of 7, and that holds every day of the selected month exactly once and no date
\* twice.
C5_GridTilesWeeks ==
    grid # <<>> =>
        LET first == Date(date.year, date.month, 1)
            next  == IF date.month = 12 THEN Date(date.year + 1, 1, 1)
                     ELSE Date(date.year, date.month + 1, 1)
        IN  /\ Len(grid) = WeekOffset(first, sunday_first)
                            + GregorianLength(date.year, date.month)
                            + ((7 - WeekOffset(next, sunday_first)) % 7)
            /\ Len(grid) % 7 = 0
            /\ \A i \in 1..(Len(grid) - 1) : grid[i + 1].date = NextDay(grid[i].date)
            /\ \A d \in 1..GregorianLength(date.year, date.month) :
                  Cardinality({i \in 1..Len(grid) :
                                  grid[i].date = Date(date.year, date.month, d)}) = 1
            /\ \A i, j \in 1..Len(grid) : grid[i].date = grid[j].date => i = j

\* C5 witness: a rendered month that needs six rows.
C5_Witness == grid # <<>> /\ Len(grid) = 42 /\ sunday_first

\* C6: the first cell is the configured week-start day at or before the first
\* day of the selected month, and the weekday of the i-th grid date is the
\* weekday named by header column i mod 7.
C6_GridAlignedToHeader ==
    grid # <<>> =>
        LET first == Date(date.year, date.month, 1)
        IN  /\ ZellerWeekday(grid[1].date) = (IF sunday_first THEN 6 ELSE 0)
            /\ DayNumber(first) - DayNumber(grid[1].date) \in 0..6
            /\ \A i \in 1..Len(grid) :
                  /\ grid[i].col = (i - 1) % 7
                  /\ grid[i].header = (IF sunday_first
                                       THEN <<6, 0, 1, 2, 3, 4, 5>>
                                       ELSE <<0, 1, 2, 3, 4, 5, 6>>)[grid[i].col + 1]
                  /\ ZellerWeekday(grid[i].date) = grid[i].header

\* C6 witness: March 2023, Monday first: the grid starts on Monday 2023-02-27.
C6_Witness ==
    /\ grid # <<>> /\ ~sunday_first
    /\ date = Date(2023, 3, 15)
    /\ grid[1].date = Date(2023, 2, 27)

\* C7: get_days_from_month(year, month) is the Gregorian length of the month
\* (February has 29 days exactly in years divisible by 4 and not by 100 unless
\* by 400); for month 12 it is the distance to January 1 of year + 1.
C7_DaysFromMonthGregorian ==
    dfm # <<>> =>
        /\ dfm[1].days = GregorianLength(dfm[1].year, dfm[1].month)
        /\ dfm[1].month = 12 =>
              dfm[1].days = num_days_from_ce(dfm[1].year + 1, 1, 1)
                              - num_days_from_ce(dfm[1].year, 12, 1)

\* C7 witness: February of the century year 1900, which is not a leap year.
C7_Witness == dfm = <<[year |-> 1900, month |-> 2, days |-> 28]>>

\* C8: a grid cell is a clickable day button iff its date is in the selected
\* date's month, not earlier than min_date, not later than max_date and not the
\* selected date; filler cells of adjacent months have no button.
C8_DayCellEnablement ==
    grid # <<>> =>
        \A i \in 1..Len(grid) :
            LET d == grid[i].date
                inMonth == d.year = date.year /\ d.month = date.month
            IN  /\ Clickable(grid[i]) <=>
                      /\ inMonth
                      /\ min_date # None => DayNumber(d) >= DayNumber(min_date[1])
                      /\ max_date # None => DayNumber(d) <= DayNumber(max_date[1])
                      /\ d # date
                /\ ~inMonth => ~grid[i].button

\* C8 witness: min_date lies in the rendered month; its own cell is clickable
\* and the cell of the day before it is not.
C8_Witness ==
    /\ grid # <<>> /\ min_date # None
    /\ \E i \in 1..(Len(grid) - 1) :
          /\ grid[i + 1].date = min_date[1]
          /\ Clickable(grid[i + 1])
          /\ grid[i].button /\ ~Clickable(grid[i]) /\ grid[i].date # date

C10_DropdownRange ==
    LET lo == IF min_date # None /\ min_date[1].year = date.year
              THEN min_date[1].month - 1 ELSE 0
        hi == IF max_date # None /\ max_date[1].year = date.year
              THEN max_date[1].month - 1 ELSE 12
    IN  months_offered(min_date, max_date, date) = {i \in 0..11 : lo <= i /\ i < hi}

====
